---- MODULE Spec2Model ----
(***************************************************************************)
(* port/atomic_pointer.h of leveldb: the AtomicPointer slot, its two       *)
(* implementations (MemoryBarrier()-based over a raw pointer, and          *)
(* std::atomic-based), and the preprocessor logic that selects one.        *)
(*                                                                         *)
(* Two state machines share the module:                                    *)
(*   SpecBuild : the preprocessor walking the header for one toolchain     *)
(*               (set of predefined macros), block by block;               *)
(*   Spec      : two threads running inlined calls of the four operations  *)
(*               (and plain accesses to one auxiliary location) on one     *)
(*               slot, as compiled for a platform by the selected class.   *)
(* Execution is out of order: an instruction of a thread may take effect   *)
(* before an earlier one of the same thread unless the compiler and the    *)
(* processor are both held to program order for that pair.                 *)
(***************************************************************************)
EXTENDS Integers, Sequences, FiniteSets, TLC

VARIABLES
    predefined,   \* macros the toolchain predefines (OS_WIN, __GNUC__, ...)
    hasAtomic,    \* whether the toolchain ships the <atomic> header
    ppc,          \* preprocessor position: the block of the header it is at
    macros,       \* macros the header has #define'd so far
    barrier,      \* which MemoryBarrier() is in scope: NoBarrier or a kind
    classes,      \* sequence of AtomicPointer class definitions compiled in
    ctor,         \* constructor the slot was built with
    initp,        \* the value constructor's argument (NoValue for default)
    rep_,         \* the slot's storage
    rep0,         \* what the storage held when construction finished
    aux,          \* the auxiliary location X, an ordinary variable
    prog,         \* per thread: the calls it makes, in program order
    code,         \* per thread: its calls, inlined by the compiler
    prg,          \* per thread, per instruction: 0 pending .. 3 complete
    ret,          \* per thread, per instruction: the value a load returned
    nsteps        \* per thread, per instruction: steps the thread spent on it

buildVars == <<predefined, hasAtomic, ppc, macros, barrier, classes>>
runVars == <<ctor, initp, rep_, rep0, aux, prog, code, prg, ret, nsteps>>
vars == <<predefined, hasAtomic, ppc, macros, barrier, classes,
          ctor, initp, rep_, rep0, aux, prog, code, prg, ret, nsteps>>

----------------------------------------------------------------------------
(* Bounds *)

\* addresses are 0..MaxAddr; an address is two half-words, v = 2*hi + lo
MaxAddr == 3
\* the auxiliary location holds 0 initially; writers write 1..MaxAux
MaxAux == 1

Addr == 0..MaxAddr
AuxVals == 1..MaxAux
\* "no value": a load that has not returned, a store's result
NoValue == 0 - 1

----------------------------------------------------------------------------
(* The preprocessor: lines 21-41, 46-73, 76-124, 126-130 *)

ConfigFlags == {"OS_WIN", "COMPILER_MSVC", "__APPLE__", "__GNUC__"}
ArchMacros == {"_M_X64", "__x86_64__", "_M_IX86", "__i386__", "__i386",
               "__ARMEL__", "__aarch64__", "__ppc__", "__powerpc__",
               "__powerpc64__", "__mips__"}

defined(m, ms) == m \in ms

\* #if / #elif chain of lines 29-41: the first branch that matches
ArchFamily(pre) ==
    IF defined("_M_X64", pre) \/ defined("__x86_64__", pre)
      THEN {"ARCH_CPU_X86_FAMILY"}
    ELSE IF defined("_M_IX86", pre) \/ defined("__i386__", pre)
            \/ defined("__i386", pre)
      THEN {"ARCH_CPU_X86_FAMILY"}
    ELSE IF defined("__ARMEL__", pre) THEN {"ARCH_CPU_ARM_FAMILY"}
    ELSE IF defined("__aarch64__", pre) THEN {"ARCH_CPU_ARM64_FAMILY"}
    ELSE IF defined("__ppc__", pre) \/ defined("__powerpc__", pre)
            \/ defined("__powerpc64__", pre)
      THEN {"ARCH_CPU_PPC_FAMILY"}
    ELSE IF defined("__mips__", pre) THEN {"ARCH_CPU_MIPS_FAMILY"}
    ELSE {}

NoBarrier == "none"
\* the three MemoryBarrier() of lines 48-69
WinBarrier == "windows.h MemoryBarrier"
FenceBarrier == "atomic_thread_fence(seq_cst)"
AsmBarrier == "asm volatile memory clobber"

\* mutant: the Mac OS branch is missing
MemoryBarrierFor_NoApple(ms) ==
    IF defined("OS_WIN", ms) /\ defined("COMPILER_MSVC", ms)
       /\ defined("ARCH_CPU_X86_FAMILY", ms)
      THEN WinBarrier
    ELSE IF defined("ARCH_CPU_X86_FAMILY", ms) /\ defined("__GNUC__", ms)
      THEN AsmBarrier
    ELSE NoBarrier

\* mutant: the Mac OS MemoryBarrier() is the empty asm of the gcc branch
MemoryBarrierFor_AppleAsm(ms) ==
    IF defined("OS_WIN", ms) /\ defined("COMPILER_MSVC", ms)
       /\ defined("ARCH_CPU_X86_FAMILY", ms)
      THEN WinBarrier
    ELSE IF defined("__APPLE__", ms) THEN AsmBarrier
    ELSE IF defined("ARCH_CPU_X86_FAMILY", ms) /\ defined("__GNUC__", ms)
      THEN AsmBarrier
    ELSE NoBarrier

\* #if / #elif chain of lines 48-73, over predefined and header macros
MemoryBarrierFor(ms) ==
    IF defined("OS_WIN", ms) /\ defined("COMPILER_MSVC", ms)
       /\ defined("ARCH_CPU_X86_FAMILY", ms)
      THEN WinBarrier
    ELSE IF defined("__APPLE__", ms) THEN FenceBarrier
    ELSE IF defined("ARCH_CPU_X86_FAMILY", ms) /\ defined("__GNUC__", ms)
      THEN AsmBarrier
    ELSE NoBarrier

\* every branch of lines 48-69 ends in #define LEVELDB_HAVE_MEMORY_BARRIER
HaveBarrierMacro(ms) ==
    IF MemoryBarrierFor(ms) # NoBarrier
      THEN {"LEVELDB_HAVE_MEMORY_BARRIER"} ELSE {}

FenceClass == "AtomicPointer{void* rep_}"
AtomicClass == "AtomicPointer{std::atomic<void*> rep_}"

\* #if defined(LEVELDB_HAVE_MEMORY_BARRIER) ... #else ... #endif, lines 76-124
ClassFor(ms) ==
    IF defined("LEVELDB_HAVE_MEMORY_BARRIER", ms) THEN FenceClass
    ELSE AtomicClass

UndefList == {"LEVELDB_HAVE_MEMORY_BARRIER", "ARCH_CPU_X86_FAMILY",
              "ARCH_CPU_ARM_FAMILY", "ARCH_CPU_ARM64_FAMILY",
              "ARCH_CPU_PPC_FAMILY"}

Toolchains ==
    {fl \cup ar : fl \in SUBSET ConfigFlags,
                  ar \in {{}} \cup {{a} : a \in ArchMacros}}

\* #include <stdint.h>, <atomic>, <windows.h>: lines 21-27
Include ==
    /\ ppc = "include"
    /\ ppc' = IF hasAtomic THEN "arch" ELSE "error"
    /\ UNCHANGED <<predefined, hasAtomic, macros, barrier, classes>>
    /\ UNCHANGED runVars

\* lines 29-41
DetectArch ==
    /\ ppc = "arch"
    /\ macros' = macros \cup ArchFamily(predefined)
    /\ ppc' = "barrier"
    /\ UNCHANGED <<predefined, hasAtomic, barrier, classes>>
    /\ UNCHANGED runVars

\* lines 46-73
DefineMemoryBarrier ==
    /\ ppc = "barrier"
    /\ barrier' = MemoryBarrierFor(predefined \cup macros)
    /\ macros' = macros \cup HaveBarrierMacro(predefined \cup macros)
    /\ ppc' = "class"
    /\ UNCHANGED <<predefined, hasAtomic, classes>>
    /\ UNCHANGED runVars

\* lines 76-124
DefineClass ==
    /\ ppc = "class"
    /\ classes' = Append(classes, ClassFor(macros))
    /\ ppc' = "undef"
    /\ UNCHANGED <<predefined, hasAtomic, macros, barrier>>
    /\ UNCHANGED runVars

\* lines 126-130
Undef ==
    /\ ppc = "undef"
    /\ macros' = macros \ UndefList
    /\ ppc' = "done"
    /\ UNCHANGED <<predefined, hasAtomic, barrier, classes>>
    /\ UNCHANGED runVars

\* the outcome of the whole header for a toolchain that has <atomic>
BuildMacros(pre) == pre \cup ArchFamily(pre)
BuiltBarrier(pre) == MemoryBarrierFor(BuildMacros(pre))
BuiltClass(pre) ==
    ClassFor(BuildMacros(pre) \cup HaveBarrierMacro(BuildMacros(pre)))
IsX86(pre) == defined("ARCH_CPU_X86_FAMILY", ArchFamily(pre))

----------------------------------------------------------------------------
(* The two AtomicPointer classes, as the instructions each call inlines to *)

Threads == {1, 2}

LoadOps == {"NoBarrier_Load", "Acquire_Load"}
StoreOps == {"NoBarrier_Store", "Release_Store"}

Call(op, arg) == [op |-> op, arg |-> arg]

\* an instruction of call number k of a thread
Ld(k, op, loc, mo) ==
    [call |-> k, op |-> op, kind |-> "ld", loc |-> loc, val |-> NoValue, mo |-> mo]
St(k, op, loc, v, mo) ==
    [call |-> k, op |-> op, kind |-> "st", loc |-> loc, val |-> v, mo |-> mo]
\* MemoryBarrier(): b is the MemoryBarrier in scope
Fn(k, op, b) ==
    [call |-> k, op |-> op, kind |-> "fence", loc |-> "-", val |-> NoValue, mo |-> b]

\* class of lines 78-100: void *rep_ and MemoryBarrier()
Fence_NoBarrier_Load(k, b) == <<Ld(k, "NoBarrier_Load", "rep_", "plain")>>
\* mutant: rep_ = NULL;
Fence_NoBarrier_Store_Null(k, v, b) == <<St(k, "NoBarrier_Store", "rep_", 0, "plain")>>
Fence_NoBarrier_Store(k, v, b) == <<St(k, "NoBarrier_Store", "rep_", v, "plain")>>
\* mutant: return rep_; with no MemoryBarrier()
Fence_Acquire_Load_NoBarrier(k, b) == <<Ld(k, "Acquire_Load", "rep_", "plain")>>
\* mutant: MemoryBarrier(); return rep_;
Fence_Acquire_Load_BarrierFirst(k, b) ==
    <<Fn(k, "Acquire_Load", b), Ld(k, "Acquire_Load", "rep_", "plain")>>
Fence_Acquire_Load(k, b) ==
    <<Ld(k, "Acquire_Load", "rep_", "plain"), Fn(k, "Acquire_Load", b)>>
\* mutant: rep_ = v; MemoryBarrier();
Fence_Release_Store_StoreFirst(k, v, b) ==
    <<St(k, "Release_Store", "rep_", v, "plain"), Fn(k, "Release_Store", b)>>
Fence_Release_Store(k, v, b) ==
    <<Fn(k, "Release_Store", b), St(k, "Release_Store", "rep_", v, "plain")>>

\* class of lines 104-122: std::atomic<void*> rep_
\* mutant: rep_.load(std::memory_order_relaxed)
Atomic_Acquire_Load_Relaxed(k) == <<Ld(k, "Acquire_Load", "rep_", "relaxed")>>
Atomic_Acquire_Load(k) == <<Ld(k, "Acquire_Load", "rep_", "acquire")>>
\* mutant: Release_Store stores NULL whatever its argument
Atomic_Release_Store_Null(k, v) == <<St(k, "Release_Store", "rep_", 0, "release")>>
Atomic_Release_Store(k, v) == <<St(k, "Release_Store", "rep_", v, "release")>>
Atomic_NoBarrier_Load(k) == <<Ld(k, "NoBarrier_Load", "rep_", "relaxed")>>
Atomic_NoBarrier_Store(k, v) == <<St(k, "NoBarrier_Store", "rep_", v, "relaxed")>>

\* the caller's ordinary accesses to the auxiliary location
Aux_Read(k) == <<Ld(k, "AuxRead", "aux", "plain")>>
Aux_Write(k, v) == <<St(k, "AuxWrite", "aux", v, "plain")>>

\* one call, inlined, for the class cls compiled in and the barrier b in scope
Compile(c, k, cls, b) ==
    IF c.op = "AuxRead" THEN Aux_Read(k)
    ELSE IF c.op = "AuxWrite" THEN Aux_Write(k, c.arg)
    ELSE IF cls = FenceClass THEN
        IF c.op = "NoBarrier_Load" THEN Fence_NoBarrier_Load(k, b)
        ELSE IF c.op = "NoBarrier_Store" THEN Fence_NoBarrier_Store(k, c.arg, b)
        ELSE IF c.op = "Acquire_Load" THEN Fence_Acquire_Load(k, b)
        ELSE Fence_Release_Store(k, c.arg, b)
    ELSE
        IF c.op = "NoBarrier_Load" THEN Atomic_NoBarrier_Load(k)
        ELSE IF c.op = "NoBarrier_Store" THEN Atomic_NoBarrier_Store(k, c.arg)
        ELSE IF c.op = "Acquire_Load" THEN Atomic_Acquire_Load(k)
        ELSE Atomic_Release_Store(k, c.arg)

\* a thread's calls, all `inline`, as one instruction sequence
RECURSIVE Inline(_, _, _, _)
Inline(calls, k, cls, b) ==
    IF k > Len(calls) THEN <<>>
    ELSE Compile(calls[k], k, cls, b) \o Inline(calls, k + 1, cls, b)

----------------------------------------------------------------------------
(* What keeps two instructions of one thread in program order *)

\* windows.h's MemoryBarrier and atomic_thread_fence(seq_cst) emit a fence
\* instruction; the empty asm with a memory clobber emits nothing
IsHardwareFence(ins) == ins.kind = "fence" /\ ins.mo \in {WinBarrier, FenceBarrier}
IsFence(ins) == ins.kind = "fence"

FenceBetween(c, j, i) == \E k \in (j + 1)..(i - 1) : IsFence(c[k])
HardwareFenceBetween(c, j, i) == \E k \in (j + 1)..(i - 1) : IsHardwareFence(c[k])

\* the compiler keeps a before b: nothing moves up past a load(acquire), down
\* past a store(release), or across any MemoryBarrier()
CompilerKeeps(c, j, i) ==
    \/ c[j].mo = "acquire"
    \/ c[i].mo = "release"
    \/ FenceBetween(c, j, i)

\* the processor keeps a before b: x86 reorders only a store with a later load
HardwareKeeps(c, j, i, x86) ==
    \/ c[j].mo = "acquire"
    \/ c[i].mo = "release"
    \/ HardwareFenceBetween(c, j, i)
    \/ x86 /\ ~(c[j].kind = "st" /\ c[i].kind = "ld")

\* instruction j < i of c takes effect before instruction i
Ordered(c, j, i, x86) ==
    \/ IsFence(c[j])
    \/ IsFence(c[i])
    \/ c[j].loc = c[i].loc
    \/ CompilerKeeps(c, j, i) /\ HardwareKeeps(c, j, i, x86)

\* a word the compiler may store as two half-words: an ordinary void* that
\* another thread accesses concurrently (a data race)
Tearable(ins) == ins.kind = "st" /\ ins.loc = "rep_" /\ ins.mo = "plain"

Hi(v) == v \div 2
Lo(v) == v % 2
Word(h, l) == 2 * h + l

----------------------------------------------------------------------------
(* Programs: what the two threads call *)

\* thread 1 fills the auxiliary location and publishes p; thread 2 loads the
\* slot and then reads the auxiliary location
Publish(sk, lk, p, x) ==
    [t \in Threads |->
        IF t = 1 THEN <<Call("AuxWrite", x), Call(sk, p)>>
        ELSE <<Call(lk, NoValue), Call("AuxRead", NoValue)>>]

\* thread 1 stores a then b; thread 2 loads twice, once with each load
Alternate(sk, a, b) ==
    [t \in Threads |->
        IF t = 1 THEN <<Call(sk, a), Call(sk, b)>>
        ELSE <<Call("NoBarrier_Load", NoValue), Call("Acquire_Load", NoValue)>>]

\* thread 1 stores v and loads it back; thread 2 calls nothing
Solo(sk, lk, v) ==
    [t \in Threads |->
        IF t = 1 THEN <<Call(sk, v), Call(lk, NoValue)>> ELSE <<>>]

\* thread 1 stores v and loads it back; thread 2 only loads
RoundTrip(sk, lk, v) ==
    [t \in Threads |->
        IF t = 1 THEN <<Call(sk, v), Call(lk, NoValue)>>
        ELSE <<Call(lk, NoValue)>>]

\* thread 1 loads the slot and then writes the auxiliary location; thread 2
\* reads the auxiliary location and then stores p
Handoff(sk, lk, p, x) ==
    [t \in Threads |->
        IF t = 1 THEN <<Call(lk, NoValue), Call("AuxWrite", x)>>
        ELSE <<Call("AuxRead", NoValue), Call(sk, p)>>]

\* thread 1 writes the auxiliary location, calls Acquire_Load and loads the
\* slot once more: a store and a later load with a MemoryBarrier() between
\* them; thread 2 calls nothing
Across(x) ==
    [t \in Threads |->
        IF t = 1 THEN <<Call("AuxWrite", x), Call("Acquire_Load", NoValue),
                        Call("NoBarrier_Load", NoValue)>>
        ELSE <<>>]

\* two writers: thread 1 calls NoBarrier_Store(a) while thread 2 calls
\* Release_Store(b)
Race(a, b) ==
    [t \in Threads |->
        IF t = 1 THEN <<Call("NoBarrier_Store", a)>>
        ELSE <<Call("Release_Store", b)>>]

\* the programs run on a slot that holds p0 when the threads start
Programs(p0) ==
    {Publish(sk, lk, p, x) :
        sk \in StoreOps, lk \in LoadOps, p \in Addr \ {p0}, x \in AuxVals}
    \cup {Alternate(sk, ab[1], ab[2]) :
        sk \in StoreOps, ab \in {x \in Addr \X Addr : x[1] # x[2]}}
    \cup {Solo(sk, lk, v) : sk \in StoreOps, lk \in LoadOps, v \in Addr}
    \cup {RoundTrip(sk, lk, v) : sk \in StoreOps, lk \in LoadOps, v \in Addr}
    \cup {Handoff(sk, lk, p, x) :
        sk \in StoreOps, lk \in LoadOps, p \in Addr \ {p0}, x \in AuxVals}
    \cup {Across(x) : x \in AuxVals}
    \cup {Race(ab[1], ab[2]) : ab \in {x \in Addr \X Addr : x[1] # x[2]}}

\* one toolchain per MemoryBarrier() of the header, and two with none
Platforms ==
    { {"OS_WIN", "COMPILER_MSVC", "_M_X64"},
      {"__APPLE__", "__GNUC__", "__aarch64__"},
      {"__GNUC__", "__x86_64__"},
      {"__GNUC__", "__aarch64__"} }

----------------------------------------------------------------------------
(* Construction and the threads' steps *)

\* mutant: explicit AtomicPointer(void* p) {} without the initializer
Constructed_NoInit(c, p, r) ==
    \/ c = "default" /\ p = NoValue /\ r \in Addr
    \/ c = "value" /\ p \in Addr /\ r \in Addr

\* AtomicPointer() {} leaves rep_ uninitialized: any bit pattern;
\* AtomicPointer(void* p) : rep_(p)
Constructed(c, p, r) ==
    \/ c = "default" /\ p = NoValue /\ r \in Addr
    \/ c = "value" /\ p \in Addr /\ r = p

\* the asm barrier is no instruction: nothing is left of it to execute
InitialProgress(ins) == IF IsFence(ins) /\ ~IsHardwareFence(ins) THEN 3 ELSE 0

Init ==
    /\ predefined \in Platforms
    /\ hasAtomic = TRUE
    /\ ppc = "done"
    /\ macros = {}
    /\ barrier = BuiltBarrier(predefined)
    /\ classes = <<BuiltClass(predefined)>>
    /\ ctor \in {"default", "value"}
    /\ initp \in Addr \cup {NoValue}
    /\ rep_ \in Addr
    /\ Constructed(ctor, initp, rep_)
    /\ rep0 = rep_
    /\ aux = 0
    /\ prog \in Programs(rep_)
    /\ code = [t \in Threads |-> Inline(prog[t], 1, classes[1], barrier)]
    /\ prg = [t \in Threads |-> [i \in DOMAIN code[t] |-> InitialProgress(code[t][i])]]
    /\ ret = [t \in Threads |-> [i \in DOMAIN code[t] |-> NoValue]]
    /\ nsteps = [t \in Threads |-> [i \in DOMAIN code[t] |-> 0]]

\* mutant: the slot is guarded by a lock that a store holds while it is
\* under way
Executable_Locked(t, i) ==
    /\ i \in DOMAIN code[t]
    /\ prg[t][i] # 3
    /\ \A j \in 1..(i - 1) :
         prg[t][j] = 3 \/ ~Ordered(code[t], j, i, IsX86(predefined))
    /\ \A u \in Threads \ {t} : \A j \in DOMAIN code[u] : prg[u][j] \notin {1, 2}

\* instruction i of thread t may take effect now: nothing it must follow is
\* still outstanding. Only the thread's own progress is consulted.
Executable(t, i) ==
    /\ i \in DOMAIN code[t]
    /\ prg[t][i] # 3
    /\ \A j \in 1..(i - 1) :
         prg[t][j] = 3 \/ ~Ordered(code[t], j, i, IsX86(predefined))

Advance(t, i, p) ==
    /\ prg' = [prg EXCEPT ![t][i] = p]
    /\ nsteps' = [nsteps EXCEPT ![t][i] = @ + 1]

\* return rep_ / return X
LoadStep(t, i) ==
    /\ code[t][i].kind = "ld"
    /\ Executable(t, i)
    /\ ret' = [ret EXCEPT ![t][i] = IF code[t][i].loc = "rep_" THEN rep_ ELSE aux]
    /\ Advance(t, i, 3)
    /\ UNCHANGED <<rep_, aux>>

\* rep_ = v / X = v, as one store or, for a tearable word, as two halves in
\* either order
StoreStep(t, i) ==
    LET ins == code[t][i] IN
    /\ ins.kind = "st"
    /\ Executable(t, i)
    /\ \/ /\ prg[t][i] = 0
          /\ IF ins.loc = "rep_"
               THEN rep_' = ins.val /\ aux' = aux
               ELSE aux' = ins.val /\ rep_' = rep_
          /\ Advance(t, i, 3)
       \/ /\ Tearable(ins)
          /\ prg[t][i] \in {0, 2}
          /\ rep_' = Word(Hi(rep_), Lo(ins.val))
          /\ Advance(t, i, IF prg[t][i] = 0 THEN 1 ELSE 3)
          /\ aux' = aux
       \/ /\ Tearable(ins)
          /\ prg[t][i] \in {0, 1}
          /\ rep_' = Word(Hi(ins.val), Lo(rep_))
          /\ Advance(t, i, IF prg[t][i] = 0 THEN 2 ELSE 3)
          /\ aux' = aux
    /\ UNCHANGED ret

\* MemoryBarrier() that is an instruction
FenceStep(t, i) ==
    /\ IsHardwareFence(code[t][i])
    /\ Executable(t, i)
    /\ Advance(t, i, 3)
    /\ UNCHANGED <<rep_, aux, ret>>

\* what no step of a thread changes
Frame == UNCHANGED <<ctor, initp, rep0, prog, code>> /\ UNCHANGED buildVars

\* return rep_;                                  (either class)
NoBarrier_Load(t) ==
    /\ \E i \in DOMAIN code[t] :
         code[t][i].op = "NoBarrier_Load" /\ LoadStep(t, i)
    /\ Frame

\* rep_ = v;                                     (either class)
NoBarrier_Store(t) ==
    /\ \E i \in DOMAIN code[t] :
         code[t][i].op = "NoBarrier_Store" /\ StoreStep(t, i)
    /\ Frame

\* result = rep_; MemoryBarrier(); return result;   or   rep_.load(acquire)
Acquire_Load(t) ==
    /\ \E i \in DOMAIN code[t] :
         code[t][i].op = "Acquire_Load" /\ (LoadStep(t, i) \/ FenceStep(t, i))
    /\ Frame

\* MemoryBarrier(); rep_ = v;   or   rep_.store(v, release)
Release_Store(t) ==
    /\ \E i \in DOMAIN code[t] :
         code[t][i].op = "Release_Store" /\ (FenceStep(t, i) \/ StoreStep(t, i))
    /\ Frame

\* the caller reads the auxiliary location
AuxRead(t) ==
    /\ \E i \in DOMAIN code[t] : code[t][i].op = "AuxRead" /\ LoadStep(t, i)
    /\ Frame

\* the caller writes the auxiliary location
AuxWrite(t) ==
    /\ \E i \in DOMAIN code[t] : code[t][i].op = "AuxWrite" /\ StoreStep(t, i)
    /\ Frame

ThreadStep(t) ==
    \/ NoBarrier_Load(t)
    \/ NoBarrier_Store(t)
    \/ Acquire_Load(t)
    \/ Release_Store(t)
    \/ AuxRead(t)
    \/ AuxWrite(t)

Next == \E t \in Threads : ThreadStep(t)

Spec == Init /\ [][Next]_vars

----------------------------------------------------------------------------
(* The preprocessor as a specification *)

InitBuild ==
    /\ predefined \in Toolchains
    /\ hasAtomic \in BOOLEAN
    /\ ppc = "include"
    /\ macros = {}
    /\ barrier = NoBarrier
    /\ classes = <<>>
    /\ ctor = "none"
    /\ initp = NoValue
    /\ rep_ = 0
    /\ rep0 = 0
    /\ aux = 0
    /\ prog = [t \in Threads |-> <<>>]
    /\ code = [t \in Threads |-> <<>>]
    /\ prg = [t \in Threads |-> <<>>]
    /\ ret = [t \in Threads |-> <<>>]
    /\ nsteps = [t \in Threads |-> <<>>]

NextBuild ==
    \/ Include
    \/ DetectArch
    \/ DefineMemoryBarrier
    \/ DefineClass
    \/ Undef

SpecBuild == InitBuild /\ [][NextBuild]_vars

----------------------------------------------------------------------------
(* Vocabulary of the properties *)

Complete(t, i) == prg[t][i] = 3
Begun(t, i) == prg[t][i] # 0
IsAccess(ins) == ins.kind \in {"ld", "st"}
SlotLoad(t, i) == code[t][i].kind = "ld" /\ code[t][i].loc = "rep_"
SlotStore(t, i) == code[t][i].kind = "st" /\ code[t][i].loc = "rep_"

\* the argument of the call that instruction i of thread t belongs to
ArgOf(t, i) == prog[t][code[t][i].call].arg

\* every address some store call of the program is given
StoredValues ==
    UNION {{prog[t][k].arg : k \in {c \in DOMAIN prog[t] : prog[t][c].op \in StoreOps}} :
           t \in Threads}

\* where thread t has the load, store or fence of a call of operation op
At(t, op, kind) ==
    {i \in DOMAIN code[t] : code[t][i].op = op /\ code[t][i].kind = kind}

\* thread w writes the auxiliary location (at a) and then stores to the slot
\* with operation sk (at b); thread r loads the slot with operation lk (at i),
\* gets the stored address, and has then read the auxiliary location (at j)
Published(w, a, b, sk, r, i, j, lk) ==
    /\ w # r
    /\ a < b /\ code[w][a].op = "AuxWrite"
    /\ code[w][b].op = sk /\ SlotStore(w, b)
    /\ i < j /\ code[r][i].op = lk /\ SlotLoad(r, i)
    /\ Complete(r, i) /\ ret[r][i] = ArgOf(w, b)
    /\ code[r][j].op = "AuxRead" /\ Complete(r, j)

----------------------------------------------------------------------------
(* Properties *)

\* C1. Publish law: W writes X and then calls Release_Store(P) (P an address
\* the slot did not hold before); whenever an Acquire_Load by R has returned
\* P, a read of X that R issues after it returns W's value, under either class.
C1_PublishLaw ==
    \A w \in Threads : \A a \in At(w, "AuxWrite", "st") :
      \A b \in At(w, "Release_Store", "st"), r \in Threads \ {w} :
        \A i \in At(r, "Acquire_Load", "ld"), j \in At(r, "AuxRead", "ld") :
          Published(w, a, b, "Release_Store", r, i, j, "Acquire_Load")
            => ret[r][j] = ArgOf(w, a)

C1_Witness ==
    /\ classes[1] = FenceClass
    /\ barrier = AsmBarrier
    /\ \E a \in DOMAIN code[1], b \in DOMAIN code[1],
          i \in DOMAIN code[2], j \in DOMAIN code[2] :
         Published(1, a, b, "Release_Store", 2, i, j, "Acquire_Load")

C3_RelaxedRoundTrip ==
    \A t \in Threads :
      \A i \in At(t, "NoBarrier_Store", "st"), j \in At(t, "NoBarrier_Load", "ld") :
      ( /\ code[t][i].op = "NoBarrier_Store"
        /\ code[t][j].op = "NoBarrier_Load"
        /\ i < j
        /\ \A k \in (i + 1)..(j - 1) : ~SlotStore(t, k)
        /\ \A u \in Threads \ {t} : \A k \in DOMAIN code[u] : ~SlotStore(u, k)
        /\ Complete(t, j) )
      => ret[t][j] = ArgOf(t, i)

C3_Witness ==
    \E i \in DOMAIN code[1], j \in DOMAIN code[1] :
      /\ code[1][i].op = "NoBarrier_Store" /\ code[1][j].op = "NoBarrier_Load"
      /\ i < j /\ Complete(1, j)
      /\ ArgOf(1, i) = MaxAddr /\ rep0 # MaxAddr
      /\ \E k \in DOMAIN code[2] : SlotLoad(2, k) /\ Complete(2, k)

\* C4. Backend equivalence: the contract (no torn value, the publish law, a
\* thread alone on the slot reading back what it stored) holds whichever of
\* the two classes is compiled in, so no load result is forbidden under one
\* class and produced under the other.
AloneReadsBack ==
    \A t \in Threads : \A i \in DOMAIN code[t], j \in DOMAIN code[t] :
      ( /\ \A u \in Threads \ {t} : code[u] = <<>>
        /\ SlotStore(t, i) /\ SlotLoad(t, j) /\ i < j /\ Complete(t, j) )
      => ret[t][j] = ArgOf(t, i)

Unfinished(t) == \E i \in DOMAIN code[t] : ~Complete(t, i)
InstrsOf(t, k) == {i \in DOMAIN code[t] : code[t][i].call = k}

C6_RelaxedNoOrdering ==
    \A w \in Threads : \A a \in At(w, "AuxWrite", "st") :
      \A r \in Threads \ {w} : \A j \in At(r, "AuxRead", "ld") :
        \A b \in DOMAIN code[w], i \in DOMAIN code[r] :
          ( /\ Published(w, a, b, code[w][b].op, r, i, j, code[r][i].op)
            /\ ret[r][j] # ArgOf(w, a) )
          => (code[w][b].op = "NoBarrier_Store" \/ code[r][i].op = "NoBarrier_Load")

C6_Witness ==
    \E a \in DOMAIN code[1], b \in DOMAIN code[1],
       i \in DOMAIN code[2], j \in DOMAIN code[2] :
      /\ Published(1, a, b, "NoBarrier_Store", 2, i, j, "NoBarrier_Load")
      /\ ret[2][j] = 0
      /\ aux = ArgOf(1, a)

\* C7. Value construction: on a slot built by AtomicPointer(p), every load
\* that has returned while no store has begun returned p.
NoStoreBegun ==
    \A t \in Threads : \A i \in DOMAIN code[t] : SlotStore(t, i) => ~Begun(t, i)

C7_ValueConstruction ==
    (ctor = "value" /\ NoStoreBegun) =>
      \A t \in Threads : \A i \in DOMAIN code[t] :
        (SlotLoad(t, i) /\ Complete(t, i)) => ret[t][i] = initp

C7_Witness ==
    /\ ctor = "value" /\ initp = MaxAddr /\ NoStoreBegun
    /\ \E i \in DOMAIN code[2], j \in DOMAIN code[2] :
         /\ code[2][i].op = "NoBarrier_Load" /\ Complete(2, i)
         /\ code[2][j].op = "Acquire_Load" /\ SlotLoad(2, j) /\ Complete(2, j)
         /\ ret[2][i] = MaxAddr /\ ret[2][j] = MaxAddr

\* C8. Backend selection: once the header is through, exactly one
\* AtomicPointer class is compiled in, the MemoryBarrier()-based one exactly
\* for Windows/MSVC/x86, Apple, and gcc on x86, the std::atomic one otherwise;
\* a toolchain without <atomic> stops at the #include and compiles no class.
X86Toolchain(pre) ==
    pre \cap {"_M_X64", "__x86_64__", "_M_IX86", "__i386__", "__i386"} # {}
BarrierAvailable(pre) ==
    \/ "OS_WIN" \in pre /\ "COMPILER_MSVC" \in pre /\ X86Toolchain(pre)
    \/ "__APPLE__" \in pre
    \/ X86Toolchain(pre) /\ "__GNUC__" \in pre

C8_BackendSelection ==
    /\ Len(classes) <= 1
    /\ ppc \in {"undef", "done"} =>
         /\ Len(classes) = 1
         /\ classes[1] = FenceClass <=> BarrierAvailable(predefined)
         /\ classes[1] = AtomicClass <=> ~BarrierAvailable(predefined)
         /\ classes[1] = FenceClass => barrier # NoBarrier
    /\ ~hasAtomic => (classes = <<>> /\ ppc \in {"include", "error"})
    /\ ppc = "error" => ~hasAtomic

C8_Witness ==
    /\ ppc = "done"
    /\ "__APPLE__" \in predefined /\ ~X86Toolchain(predefined)
    /\ classes = <<FenceClass>>

\* C9. Acquire one-way ordering: no memory access a thread issues after an
\* Acquire_Load has begun before that Acquire_Load has read the slot; so a
\* thread that reads X and then Release_Stores P never reads a value written
\* to X after an Acquire_Load that returned P. In the MemoryBarrier()-based
\* class the read of rep_ comes first and the barrier right after it.
C9_AcquireOneWay ==
    \A t \in Threads : \A i \in At(t, "Acquire_Load", "ld") :
      /\ \A k \in DOMAIN code[t] :
           (i < k /\ IsAccess(code[t][k]) /\ Begun(t, k)) => Complete(t, i)
      /\ \A k \in At(t, "AuxWrite", "st"), u \in Threads \ {t} :
           \A a \in At(u, "AuxRead", "ld"), b \in At(u, "Release_Store", "st") :
             ( /\ i < k /\ Complete(t, i)
               /\ a < b /\ Complete(u, a)
               /\ ret[t][i] = ArgOf(u, b) )
             => ret[u][a] = 0
      /\ classes[1] = FenceClass =>
           /\ i + 1 \in At(t, "Acquire_Load", "fence")
           /\ code[t][i + 1].call = code[t][i].call

C9_Witness ==
    \E i \in DOMAIN code[1], k \in DOMAIN code[1] :
      /\ classes[1] = FenceClass
      /\ code[1][i].op = "Acquire_Load" /\ SlotLoad(1, i) /\ Complete(1, i)
      /\ i < k /\ code[1][k].op = "AuxWrite" /\ Complete(1, k)
      /\ ret[1][i] \in StoredValues \ {rep0}

\* C10. Release one-way ordering: the store of a Release_Store does not begin
\* before every memory access its thread issued earlier has taken effect. In
\* the MemoryBarrier()-based class the barrier comes first and the write of
\* rep_ right after it.
C10_ReleaseOneWay ==
    \A t \in Threads : \A i \in At(t, "Release_Store", "st") :
      /\ \A j \in DOMAIN code[t] :
           (j < i /\ IsAccess(code[t][j]) /\ Begun(t, i)) => Complete(t, j)
      /\ classes[1] = FenceClass =>
           /\ i - 1 \in At(t, "Release_Store", "fence")
           /\ code[t][i - 1].call = code[t][i].call

C10_Witness ==
    \E j \in DOMAIN code[2], i \in DOMAIN code[2] :
      /\ classes[1] = FenceClass
      /\ code[2][j].op = "AuxRead" /\ Complete(2, j)
      /\ code[2][i].op = "Release_Store" /\ SlotStore(2, i) /\ Complete(2, i)
      /\ j < i
      /\ \E k \in DOMAIN code[1] : SlotLoad(1, k) /\ Complete(1, k) /\ ret[1][k] = ArgOf(2, i)

\* C11 as stated. In the MemoryBarrier()-based class an Acquire_Load or
\* Release_Store has a MemoryBarrier() next to its access, a NoBarrier call
\* has none, and the barrier is a full fence on every platform: no access the
\* thread issues after it begins before every access issued before it is done.
FenceNextToAccess ==
    \A t \in Threads :
      /\ \A i \in At(t, "Acquire_Load", "ld") :
           i + 1 \in At(t, "Acquire_Load", "fence")
           /\ code[t][i + 1].call = code[t][i].call
      /\ \A i \in At(t, "Release_Store", "st") :
           i - 1 \in At(t, "Release_Store", "fence")
           /\ code[t][i - 1].call = code[t][i].call
      /\ At(t, "NoBarrier_Load", "fence") = {}
      /\ At(t, "NoBarrier_Store", "fence") = {}
      /\ \A k \in DOMAIN code[t] : IsFence(code[t][k]) => code[t][k].mo = barrier

\* where thread t has a MemoryBarrier()
FencesOf(t) == {k \in DOMAIN code[t] : IsFence(code[t][k])}

\* access i, issued after fence k, has begun while access j, issued before
\* it, is not done
Crossed(t, j, k, i) ==
    /\ j < k /\ k < i
    /\ IsFence(code[t][k]) /\ IsAccess(code[t][j]) /\ IsAccess(code[t][i])
    /\ Begun(t, i) /\ ~Complete(t, j)

C11_FullFenceEverywhere ==
    classes[1] = FenceClass =>
      /\ FenceNextToAccess
      /\ \A t \in Threads : \A k \in FencesOf(t) :
           \A j \in 1..(k - 1), i \in (k + 1)..Len(code[t]) : ~Crossed(t, j, k, i)

\* C11, amended. As above, but the barrier is a full fence only where it is
\* windows.h's MemoryBarrier or atomic_thread_fence(seq_cst); gcc's empty asm
\* on x86 stops the compiler and leaves the processor free to let a load
\* issued after it overtake a store issued before it, and nothing else.
C11_FenceStrength ==
    classes[1] = FenceClass =>
      /\ FenceNextToAccess
      /\ barrier \in {WinBarrier, FenceBarrier, AsmBarrier}
      /\ \A t \in Threads : \A k \in FencesOf(t) :
           \A j \in 1..(k - 1), i \in (k + 1)..Len(code[t]) :
           Crossed(t, j, k, i) =>
             /\ barrier = AsmBarrier
             /\ code[t][j].kind = "st" /\ code[t][i].kind = "ld"

C11_Witness ==
    /\ classes[1] = FenceClass /\ barrier = FenceBarrier
    /\ \E j \in At(1, "AuxWrite", "st"), k \in At(1, "Acquire_Load", "fence"),
          i \in At(1, "NoBarrier_Load", "ld") :
         /\ j < k /\ k < i
         /\ nsteps[1][k] = 1
         /\ Complete(1, j) /\ Complete(1, i)

\* C12. Only the two store operations mutate the slot: as long as no store
\* has begun the slot holds its initial value, whatever loads have run, and
\* once the stores begun so far have returned it holds the argument of one of
\* them.
NoStorePending ==
    \A t \in Threads : \A i \in DOMAIN code[t] :
      SlotStore(t, i) => prg[t][i] \in {0, 3}

ReturnedStores ==
    UNION {{ArgOf(t, i) : i \in {k \in DOMAIN code[t] : SlotStore(t, k) /\ Complete(t, k)}} :
           t \in Threads}

SoleWriter(t) ==
    \A u \in Threads \ {t} : \A k \in DOMAIN code[u] : ~SlotStore(u, k)

ValueStep ==
    \A t \in Threads : \A i \in DOMAIN code[t] :
      (~Complete(t, i) /\ prg'[t][i] = 3) =>
        /\ SlotLoad(t, i) => (ret'[t][i] = rep_ /\ rep_' = rep_)
        /\ (SlotStore(t, i) /\ SoleWriter(t)) => rep_' = ArgOf(t, i)

AllPairingsRoundTrip ==
    \A t \in Threads : \A sk \in StoreOps, lk \in LoadOps :
      \A i \in At(t, sk, "st"), j \in At(t, lk, "ld") :
        ( /\ i < j /\ SoleWriter(t)
          /\ \A k \in (i + 1)..(j - 1) : ~SlotStore(t, k)
          /\ Complete(t, j) )
        => ret[t][j] = ArgOf(t, i)

BegunStores ==
    UNION {{ArgOf(t, i) : i \in {k \in DOMAIN code[t] : SlotStore(t, k) /\ Begun(t, k)}} :
           t \in Threads}

\* the place of store k of thread w in the order of the slot's values; the
\* initial value has place 0
Place(w, k) == Cardinality({n \in DOMAIN code[w] : SlotStore(w, n) /\ n <= k})

\* the places at which address v stands in the order
Places(w, v) ==
    (IF rep0 = v THEN {0} ELSE {})
    \cup {Place(w, k) : k \in {n \in DOMAIN code[w] : SlotStore(w, n) /\ ArgOf(w, n) = v}}

====
